---- MODULE Spec2Model ----
(***************************************************************************)
(* Model of psst-gui/src/error.rs: HttpErrorDetails (construction, the     *)
(* message-extraction heuristic, summary(), details()) and the two-variant *)
(* Error enum with its Display rendering.                                  *)
(*                                                                         *)
(* A Rust str is modelled as a sequence of characters.  An ASCII character *)
(* is the one-character string that spells it; a non-ASCII character is    *)
(* named by its code point ("U+00E9", "U+20AC") and occupies several bytes *)
(* of the UTF-8 buffer, so that byte lengths and byte offsets (str::len,   *)
(* &s[..n]) differ from character counts exactly as they do in Rust.       *)
(***************************************************************************)
EXTENDS Integers, Sequences, FiniteSets, TLC

\* Option::None for an optional string, and the outcome of an operation that
\* panics instead of returning.  Neither is a string of the model: every
\* element of a string is a single character or a "U+xxxx" name.
None == <<"None">>
Panic == <<"panic">>

\* ------------------------------------------------------------------------
\* Characters and strings
\* ------------------------------------------------------------------------

\* UTF-8 width of a character in bytes.
Utf8Width(c) ==
    IF c = "U+00E9" THEN 2
    ELSE IF c = "U+20AC" THEN 3
    ELSE 1

\* str::len(): the length of the UTF-8 buffer in bytes, one byte for every
\* character and the extra bytes of the wider ones.
ByteLen(s) ==
    Len(s) + Cardinality({i \in 1..Len(s) : Utf8Width(s[i]) >= 2})
           + Cardinality({i \in 1..Len(s) : Utf8Width(s[i]) >= 3})
           + Cardinality({i \in 1..Len(s) : Utf8Width(s[i]) >= 4})

\* Number of characters (s.chars().count()).
CharLen(s) == Len(s)

\* The first n characters of s (all of s when it has fewer).
TakeChars(s, n) == SubSeq(s, 1, IF n < Len(s) THEN n ELSE Len(s))

\* Byte offset at which the first k characters of s end.
ByteOffset(s, k) == ByteLen(SubSeq(s, 1, k))

RECURSIVE CharsBefore(_, _, _, _)
\* The k in lo..hi such that the first k characters of s end at byte offset
\* n, found by bisection (offsets grow with k); -1 when there is none, that
\* is when str::is_char_boundary(n) is false.
CharsBefore(s, lo, hi, n) ==
    IF lo > hi THEN -1
    ELSE LET mid == (lo + hi) \div 2
             off == ByteOffset(s, mid)
         IN  IF off = n THEN mid
             ELSE IF off < n THEN CharsBefore(s, mid + 1, hi, n)
             ELSE CharsBefore(s, lo, mid - 1, n)

\* &s[..n]: the prefix of n bytes; panics when n is beyond the end or falls
\* inside a character.
SliceTo(s, n) ==
    LET k == CharsBefore(s, 0, Len(s), n) IN
    IF k = -1 THEN Panic ELSE SubSeq(s, 1, k)

\* str::starts_with(c)
starts_with(s, c) == s # <<>> /\ s[1] = c

Digit(d) == CASE d = 0 -> "0" [] d = 1 -> "1" [] d = 2 -> "2" [] d = 3 -> "3"
              [] d = 4 -> "4" [] d = 5 -> "5" [] d = 6 -> "6" [] d = 7 -> "7"
              [] d = 8 -> "8" [] d = 9 -> "9"

RECURSIVE Decimal(_)
\* Display of an unsigned integer: its decimal digits, no padding.
Decimal(n) ==
    IF n < 10 THEN <<Digit(n)>> ELSE Decimal(n \div 10) \o <<Digit(n % 10)>>

\* ------------------------------------------------------------------------
\* serde_json::from_str::<Value>
\*
\* A recursive-descent parser over the character sequence.  Values are
\* records [t, s, a, m]: t is the variant tag, s the text of a String or
\* the lexeme of a Number, a the elements of an Array, m the map of an
\* Object (a function from key strings to values; a repeated key keeps the
\* last value, as Map::insert does).  A parse result is [ok, v, p] with p
\* the position after the value.  Inputs of the model contain no \u escapes
\* (reported as an error here), no numbers outside the f64 range and no
\* nesting beyond serde_json's recursion limit.
\* ------------------------------------------------------------------------

JNull == [t |-> "null", s |-> <<>>, a |-> <<>>, m |-> <<>>]
JBool(b) == [t |-> "bool", s |-> <<b>>, a |-> <<>>, m |-> <<>>]
JNum(lex) == [t |-> "number", s |-> lex, a |-> <<>>, m |-> <<>>]
JStr(str) == [t |-> "string", s |-> str, a |-> <<>>, m |-> <<>>]
JArr(elems) == [t |-> "array", s |-> <<>>, a |-> elems, m |-> <<>>]
JObj(map) == [t |-> "object", s |-> <<>>, a |-> <<>>, m |-> map]

Fail == [ok |-> FALSE, v |-> JNull, p |-> 0]
Done(v, p) == [ok |-> TRUE, v |-> v, p |-> p]

Whitespace == {" ", "\n", "\t", "\r"}
Digits == {"0", "1", "2", "3", "4", "5", "6", "7", "8", "9"}

At(s, i) == IF i \in 1..Len(s) THEN s[i] ELSE "EOF"

\* Position of the first non-whitespace character at or after i.
SkipWs(s, i) ==
    CHOOSE j \in i..(Len(s) + 1) :
        /\ At(s, j) \notin Whitespace
        /\ \A k \in i..(j - 1) : s[k] \in Whitespace

\* Position after the run of digits starting at i.
SkipDigits(s, i) ==
    CHOOSE j \in i..(Len(s) + 1) :
        /\ At(s, j) \notin Digits
        /\ \A k \in i..(j - 1) : s[k] \in Digits

MapInsert(map, k, v) ==
    [x \in (DOMAIN map) \cup {k} |-> IF x = k THEN v ELSE map[x]]

EmptyMap == [x \in {} |-> JNull]

Unescape(c) ==
    CASE c = "\"" -> "\""
      [] c = "\\" -> "\\"
      [] c = "/" -> "/"
      [] c = "n" -> "\n"
      [] c = "t" -> "\t"
      [] c = "r" -> "\r"
      [] c = "b" -> "U+0008"
      [] c = "f" -> "\f"
      [] OTHER -> "EOF"

\* Characters that end a run of ordinary characters inside a string
\* literal: the closing quote, a backslash, a raw control character and the
\* end of the input.
StringStops == {"\"", "\\", "EOF", "\n", "\t", "\r", "\f", "U+0008"}

\* Position of the first of those characters at or after i.
SkipRun(s, i) ==
    CHOOSE j \in i..(Len(s) + 1) :
        /\ At(s, j) \in StringStops
        /\ \A k \in i..(j - 1) : s[k] \notin StringStops

RECURSIVE ParseChars(_, _, _)
\* The characters of a string literal from position i (after the opening
\* quote) up to the closing quote; acc is the text decoded so far.  Runs of
\* ordinary characters are copied whole, escapes are decoded one by one.
ParseChars(s, i, acc) ==
    LET j == SkipRun(s, i)
        text == acc \o SubSeq(s, i, j - 1)
    IN  IF At(s, j) = "\"" THEN Done(JStr(text), j + 1)
        ELSE IF At(s, j) = "\\" /\ Unescape(At(s, j + 1)) # "EOF"
            THEN ParseChars(s, j + 2, Append(text, Unescape(At(s, j + 1))))
        ELSE Fail

\* A number: -? (0 | [1-9][0-9]*) (. [0-9]+)? ([eE] [+-]? [0-9]+)?
ParseNumber(s, i) ==
    LET i0 == IF At(s, i) = "-" THEN i + 1 ELSE i
        i1 == IF At(s, i0) = "0" THEN i0 + 1 ELSE SkipDigits(s, i0)
        f0 == i1 + 1
        f1 == SkipDigits(s, f0)
        i2 == IF At(s, i1) = "." THEN f1 ELSE i1
        e0 == IF At(s, i2 + 1) \in {"+", "-"} THEN i2 + 2 ELSE i2 + 1
        e1 == SkipDigits(s, e0)
        i3 == IF At(s, i2) \in {"e", "E"} THEN e1 ELSE i2
    IN  IF i1 = i0 THEN Fail
        ELSE IF At(s, i1) = "." /\ f1 = f0 THEN Fail
        ELSE IF At(s, i2) \in {"e", "E"} /\ e1 = e0 THEN Fail
        ELSE Done(JNum(SubSeq(s, i, i3 - 1)), i3)

\* The keyword w at position i.
ParseIdent(s, i, w, v) ==
    IF i + Len(w) - 1 <= Len(s) /\ SubSeq(s, i, i + Len(w) - 1) = w
    THEN Done(v, i + Len(w))
    ELSE Fail

RECURSIVE ParseValue(_, _)
RECURSIVE ParseElems(_, _, _)
RECURSIVE ParseMembers(_, _, _)

\* One value starting at position i (whitespace already skipped).
ParseValue(s, i) ==
    LET c == At(s, i) IN
    CASE c = "n" -> ParseIdent(s, i, <<"n", "u", "l", "l">>, JNull)
      [] c = "t" -> ParseIdent(s, i, <<"t", "r", "u", "e">>, JBool(TRUE))
      [] c = "f" -> ParseIdent(s, i, <<"f", "a", "l", "s", "e">>,
          JBool(FALSE))
      [] c = "\"" -> ParseChars(s, i + 1, <<>>)
      [] c = "-" \/ c \in Digits -> ParseNumber(s, i)
      [] c = "[" ->
            LET j == SkipWs(s, i + 1) IN
            IF At(s, j) = "]" THEN Done(JArr(<<>>), j + 1)
            ELSE ParseElems(s, j, <<>>)
      [] c = "{" ->
            LET j == SkipWs(s, i + 1) IN
            IF At(s, j) = "}" THEN Done(JObj(EmptyMap), j + 1)
            ELSE ParseMembers(s, j, EmptyMap)
      [] OTHER -> Fail

\* The elements of a non-empty array from position i, up to the closing ].
ParseElems(s, i, acc) ==
    LET r == ParseValue(s, i) IN
    IF ~r.ok THEN Fail
    ELSE LET j == SkipWs(s, r.p) IN
         IF At(s, j) = "]" THEN Done(JArr(Append(acc, r.v)), j + 1)
         ELSE IF At(s, j) = "," THEN ParseElems(s, SkipWs(s, j + 1), Append(acc, r.v))
         ELSE Fail

\* The members of a non-empty object from position i, up to the closing }.
ParseMembers(s, i, acc) ==
    IF At(s, i) # "\"" THEN Fail
    ELSE LET k == ParseChars(s, i + 1, <<>>) IN
         IF ~k.ok THEN Fail
         ELSE LET c == SkipWs(s, k.p) IN
              IF At(s, c) # ":" THEN Fail
              ELSE LET r == ParseValue(s, SkipWs(s, c + 1)) IN
                   IF ~r.ok THEN Fail
                   ELSE LET j == SkipWs(s, r.p)
                            map == MapInsert(acc, k.v.s, r.v)
                        IN  IF At(s, j) = "}" THEN Done(JObj(map), j + 1)
                            ELSE IF At(s, j) = ","
                                 THEN ParseMembers(s, SkipWs(s, j + 1), map)
                            ELSE Fail

\* serde_json::from_str: one value, surrounded by optional whitespace, and
\* nothing after it.  [ok |-> FALSE] stands for Err(_).
from_str(s) ==
    LET r == ParseValue(s, SkipWs(s, 1)) IN
    IF r.ok /\ SkipWs(s, r.p) = Len(s) + 1 THEN r ELSE Fail

\* Option::<&Value>::None
NoValue == [t |-> "none", s |-> <<>>, a |-> <<>>, m |-> <<>>]

\* Value::get(key) with a string key: the member of an object; None for a
\* missing member and for every value that is not an object.
get(json, key) ==
    IF json.t = "object" /\ key \in DOMAIN json.m THEN json.m[key] ELSE NoValue

\* Value::as_str, also through Option::and_then: the text of a String,
\* None for every other value.
as_str(v) ==
    IF v.t = "string" THEN v.s ELSE None


\* ------------------------------------------------------------------------
\* HttpErrorDetails and Error
\* ------------------------------------------------------------------------

ShortBodyLimit == 200
TruncateLimit == 500

error == <<"e", "r", "r", "o", "r">>
message == <<"m", "e", "s", "s", "a", "g", "e">>
detail == <<"d", "e", "t", "a", "i", "l">>

\* format!("{} ({})", status_text, status_code)
FormatStatus(status_text, status_code) ==
    status_text \o <<" ", "(">> \o Decimal(status_code) \o <<")">>

\* json_message with the top-level `message` consulted before `error`.
json_message_toplevel_first(json) ==
    LET error_obj == get(json, error) IN
    IF as_str(get(json, message)) # None
        THEN as_str(get(json, message))
    ELSE IF error_obj # NoValue /\ as_str(get(error_obj, message)) # None
        THEN as_str(get(error_obj, message))
    ELSE IF error_obj # NoValue /\ as_str(error_obj) # None
        THEN as_str(error_obj)
    ELSE IF as_str(get(json, detail)) # None
        THEN as_str(get(json, detail))
    ELSE None

\* The field search of extract_message over a parsed body: the text of the
\* first rule that matches, None when no rule matches.
json_message(json) ==
    LET error_obj == get(json, error) IN
    IF error_obj # NoValue /\ as_str(get(error_obj, message)) # None
        THEN as_str(get(error_obj, message))
    ELSE IF error_obj # NoValue /\ as_str(error_obj) # None
        THEN as_str(error_obj)
    ELSE IF as_str(get(json, message)) # None
        THEN as_str(get(json, message))
    ELSE IF as_str(get(json, detail)) # None
        THEN as_str(get(json, detail))
    ELSE None

\* HttpErrorDetails::extract_message
extract_message(body, status_text, status_code) ==
    LET parsed == from_str(body)
        found == IF parsed.ok THEN json_message(parsed.v) ELSE None
    IN  IF body # None /\ found # None
            THEN found
        ELSE IF body # None /\ ByteLen(body) < ShortBodyLimit /\ ~starts_with(body, "{")
            THEN body
        ELSE FormatStatus(status_text, status_code)

\* new with the message derived from the url instead of the status text.
new_message_from_url(status_code, status_text, url, method, body) ==
    [kind |-> "HttpErrorDetails",
     status_code |-> status_code,
     status_text |-> status_text,
     url |-> url,
     method |-> method,
     body |-> body,
     message |-> extract_message(body, url, status_code)]

\* HttpErrorDetails::new
new(status_code, status_text, url, method, body) ==
    [kind |-> "HttpErrorDetails",
     status_code |-> status_code,
     status_text |-> status_text,
     url |-> url,
     method |-> method,
     body |-> body,
     message |-> extract_message(body, status_text, status_code)]

\* summary with the status text in place of the stored message.
summary_status_text(self) ==
    <<"H", "T", "T", "P", " ">> \o Decimal(self.status_code)
        \o <<" ", "-", " ">> \o self.status_text

\* HttpErrorDetails::summary
summary(self) ==
    <<"H", "T", "T", "P", " ">> \o Decimal(self.status_code)
        \o <<" ", "-", " ">> \o self.message

\* "HTTP Error:\n  Status: {} {}\n  URL: {}\n  Method: {}"
DetailsHeader(self) ==
    <<"H", "T", "T", "P", " ", "E", "r", "r", "o", "r", ":">>
        \o <<"\n", " ", " ", "S", "t", "a", "t", "u", "s", ":", " ">>
        \o Decimal(self.status_code) \o <<" ">> \o self.status_text
        \o <<"\n", " ", " ", "U", "R", "L", ":", " ">> \o self.url
        \o <<"\n", " ", " ", "M", "e", "t", "h", "o", "d", ":",
            " ">> \o self.method

ResponseLabel ==
    <<"\n", " ", " ", "R", "e", "s", "p", "o", "n", "s", "e", ":", " ">>

TruncatedMark ==
    <<".", ".", ".", " ", "(", "t", "r", "u", "n", "c", "a", "t", "e", "d",
        ")">>

\* HttpErrorDetails::details; Panic when the slice &body[..500] panics.
details(self) ==
    IF self.body = None THEN DetailsHeader(self)
    ELSE IF ByteLen(self.body) > TruncateLimit
         THEN LET head == SliceTo(self.body, TruncateLimit) IN
              IF head = Panic THEN Panic
              ELSE DetailsHeader(self) \o ResponseLabel \o head \o TruncatedMark
    ELSE DetailsHeader(self) \o ResponseLabel \o self.body

\* ToString of the value handed to Error::web_api: a string renders as
\* itself, an integer as its decimal digits.
to_string(x) == IF x.ty = "str" THEN x.str ELSE Decimal(x.num)

\* Error::web_api
web_api(x) == [kind |-> "WebApiError", text |-> to_string(x)]

\* Error::http
http(status_code, status_text, url, method, body) ==
    [kind |-> "HttpError",
     details |-> new(status_code, status_text, url, method, body)]

\* fmt writing the bare message of an HttpError instead of its summary.
fmt_bare_message(self) ==
    IF self.kind = "WebApiError" THEN self.text ELSE self.details.message

\* <Error as fmt::Display>::fmt: the text written to the formatter.
fmt(self) ==
    IF self.kind = "WebApiError" THEN self.text ELSE summary(self.details)


\* ------------------------------------------------------------------------
\* Inputs
\* ------------------------------------------------------------------------

\* How far the generated body lengths range on either side of a limit.
Slack == 1
\* How many summary(), details() and Display calls are made on one value.
MaxCalls == 3

Repeat(c, n) == [i \in 1..n |-> c]

Quote(str) == <<"\"">> \o str \o <<"\"">>
Member(key, text) == Quote(key) \o <<":">> \o text
Object1(m1) == <<"{">> \o m1 \o <<"}">>
Object2(m1, m2) == <<"{">> \o m1 \o <<",">> \o m2 \o <<"}">>

RECURSIVE Join(_)
\* The members of an object text, separated by commas.
Join(ms) ==
    IF ms = <<>> THEN <<>>
    ELSE IF Len(ms) = 1 THEN ms[1]
    ELSE ms[1] \o <<",">> \o Join(Tail(ms))

Num401 == <<"4", "0", "1">>
TextEM == <<"I", "n", "v", "a", "l", "i", "d", " ", "t", "o", "k", "e", "n">>
TextE == <<"b", "a", "d", " ", "r", "e", "q", "u", "e", "s", "t">>
TextM == <<"O", "o", "p", "s">>
TextD == <<"G", "o", "n", "e">>

\* Texts of the `error` member (None: the member is absent).
ErrorTexts ==
    {None, Quote(TextE), Quote(<<>>), Num401, <<"n", "u", "l", "l">>,
     Object1(Member(message, Quote(TextEM))),
     Object2(Member(<<"s", "t", "a", "t", "u", "s">>, Num401),
         Member(message, Quote(TextEM))),
     Object1(Member(message, Quote(<<>>))),
     Object1(Member(message, Num401)),
     Object1(Member(<<"s", "t", "a", "t", "u", "s">>, Num401))}

\* Texts of the top-level `message` and `detail` members.
MessageTexts == {None, Quote(TextM), Quote(<<>>), Num401}
DetailTexts == {None, Quote(TextD), <<"t", "r", "u", "e">>}

OptMember(key, text) == IF text = None THEN <<>> ELSE <<Member(key, text)>>

\* Objects with every combination of the three members.
ObjectBodies ==
    {<<"{">>
        \o Join(OptMember(detail, d) \o OptMember(message, m) \o OptMember(error, e))
        \o <<"}">> : e \in ErrorTexts, m \in MessageTexts, d \in DetailTexts}

\* Other bodies that parse: surrounding whitespace, an escape, a repeated
\* key, and values that are not objects.  In order:
\*    { "error" : { "message" : "Invalid token" } , "message" : "Oops" }\n
\*   {"message":"a\"b\\c"}          {"message":"Oops","message":"Gone"}
\*   [1,2]     [{"message":"Oops"}]     -4.2e1     "hi"     null
\*    {"status":401}   (with a leading space)
OtherJsonBodies ==
    {<<" ", "{", " ", "\"", "e", "r", "r", "o", "r", "\"", " ", ":", " ",
        "{", " ", "\"", "m", "e", "s", "s", "a", "g", "e", "\"", " ", ":",
        " ", "\"", "I", "n", "v", "a", "l", "i", "d", " ", "t", "o", "k",
        "e", "n", "\"", " ", "}", " ", ",", " ", "\"", "m", "e", "s", "s",
        "a", "g", "e", "\"", " ", ":", " ", "\"", "O", "o", "p", "s", "\"",
        " ", "}", "\n">>,
     <<"{", "\"", "m", "e", "s", "s", "a", "g", "e", "\"", ":", "\"", "a",
         "\\", "\"", "b", "\\", "\\", "c", "\"", "}">>,
     <<"{", "\"", "m", "e", "s", "s", "a", "g", "e", "\"", ":", "\"", "O",
         "o", "p", "s", "\"", ",", "\"", "m", "e", "s", "s", "a", "g", "e",
         "\"", ":", "\"", "G", "o", "n", "e", "\"", "}">>,
     <<"[", "1", ",", "2", "]">>,
     <<"[", "{", "\"", "m", "e", "s", "s", "a", "g", "e", "\"", ":", "\"",
         "O", "o", "p", "s", "\"", "}", "]">>,
     <<"-", "4", ".", "2", "e", "1">>,
     <<"\"", "h", "i", "\"">>,
     <<"n", "u", "l", "l">>,
     <<" ", "{", "\"", "s", "t", "a", "t", "u", "s", "\"", ":", "4", "0",
         "1", "}">>}

\* Short bodies that do not parse.  In order: the empty body,
\*   Internal error occurred     <html>502</html>
\*   {"error":{"message":"Inv    {oops}     {oops} after a space
\*   {"message":"Oops"} x
PlainBodies ==
    {<<>>,
     <<"I", "n", "t", "e", "r", "n", "a", "l", " ", "e", "r", "r", "o", "r",
         " ", "o", "c", "c", "u", "r", "r", "e", "d">>,
     <<"<", "h", "t", "m", "l", ">", "5", "0", "2", "<", "/", "h", "t", "m",
         "l", ">">>,
     <<"{", "\"", "e", "r", "r", "o", "r", "\"", ":", "{", "\"", "m", "e",
         "s", "s", "a", "g", "e", "\"", ":", "\"", "I", "n", "v">>,
     <<"{", "o", "o", "p", "s", "}">>,
     <<" ", "{", "o", "o", "p", "s", "}">>,
     <<"{", "\"", "m", "e", "s", "s", "a", "g", "e", "\"", ":", "\"", "O",
         "o", "p", "s", "\"", "}", " ", "x">>}

Around(n) == (n - Slack)..(n + Slack)

\* Bodies whose byte or character length is near one of the two limits.
LongBodies ==
    {Repeat("a", n) : n \in Around(ShortBodyLimit) \cup Around(TruncateLimit)}
    \cup {Repeat("U+00E9", n) : n \in Around(ShortBodyLimit \div 2) \cup Around(TruncateLimit \div 2)}
    \cup {<<"a">> \o Repeat("U+00E9", n) : n \in Around(TruncateLimit \div 2)}
    \cup {Repeat("U+20AC", n) : n \in Around(TruncateLimit \div 3)}
    \cup {Quote(Repeat("a", n)) : n \in Around(ShortBodyLimit - 2)}
    \cup {Object1(Member(message, Quote(Repeat("a", n)))) : n \in Around(ShortBodyLimit)}
    \cup {<<"{">> \o Repeat("a", n) : n \in Around(TruncateLimit)}

Bodies == ObjectBodies \cup OtherJsonBodies \cup PlainBodies \cup LongBodies

\* The bodies of the two-instance specification: one per branch of
\* extract_message.
PairBodies ==
    {<<>>,
     <<"I", "n", "t", "e", "r", "n", "a", "l", " ", "e", "r", "r", "o", "r",
         " ", "o", "c", "c", "u", "r", "r", "e", "d">>,
     <<"{", "\"", "e", "r", "r", "o", "r", "\"", ":", "{", "\"", "m", "e",
         "s", "s", "a", "g", "e", "\"", ":", "\"", "I", "n", "v">>,
     <<"[", "1", ",", "2", "]">>,
     Object1(Member(error, Object1(Member(message, Quote(TextEM))))),
     Object2(Member(message, Quote(TextM)), Member(error, Quote(TextE))),
     Object1(Member(detail, Quote(TextD))),
     Object1(Member(<<"s", "t", "a", "t", "u", "s">>, Num401))}
    \cup {Repeat("a", n) : n \in Around(ShortBodyLimit)}

StatusCodes == {0, 401, 65535}
StatusTexts == {<<>>, <<"U", "n", "a", "u", "t", "h", "o", "r", "i", "z",
    "e", "d">>}
Urls == {<<"/", "v", "1", "/", "m", "e">>, <<"/", "v", "1", "/", "x">>}
Methods == {<<"G", "E", "T">>, <<"P", "O", "S", "T">>}

\* Values handed to Error::web_api.
Displayables ==
    {[ty |-> "str", str |-> t, num |-> 0] : t \in {<<>>, <<"c", "o", "n",
        "n", "e", "c", "t", "i", "o", "n", " ", "r", "e", "s", "e", "t">>}}
    \cup {[ty |-> "u16", str |-> <<>>, num |-> n] : n \in StatusCodes}


\* ------------------------------------------------------------------------
\* State machine: a caller constructs one value and then reads it.
\* ------------------------------------------------------------------------

VARIABLES
    val,        \* the constructed value: an HttpErrorDetails or an Error
    args,       \* the arguments its constructor was called with
    op,         \* the last operation performed
    out,        \* what that operation returned; Panic when it panicked
    seen,       \* the first value each of summary() and details() returned
    calls,      \* how many read operations were called on val
    other,      \* a second HttpErrorDetails, constructed after val
    otherArgs   \* the arguments of the second construction

vars == <<val, args, op, out, seen, calls, other, otherArgs>>

NoVal == [kind |-> "none"]
NoArgs == [fn |-> "none"]

Init ==
    /\ val = NoVal
    /\ args = NoArgs
    /\ op = "init"
    /\ out = None
    /\ seen = [summary |-> None, details |-> None]
    /\ calls = 0
    /\ other = NoVal
    /\ otherArgs = NoArgs

HttpArgs(fn, status_code, status_text, url, method, body) ==
    [fn |-> fn, status_code |-> status_code, status_text |-> status_text,
     url |-> url, method |-> method, body |-> body]

\* let val = HttpErrorDetails::new(..) with a body of B or without one
NewDetails(B) ==
    /\ val.kind = "none"
    /\ \E status_code \in StatusCodes, status_text \in StatusTexts,
          url \in Urls, method \in Methods, body \in B \cup {None} :
          /\ val' = new(status_code, status_text, url, method, body)
          /\ args' = HttpArgs("new", status_code, status_text, url, method, body)
    /\ op' = "new"
    /\ UNCHANGED <<out, seen, calls, other, otherArgs>>

New == NewDetails(Bodies)

\* let val = Error::http(..)
Http ==
    /\ val.kind = "none"
    /\ \E status_code \in StatusCodes, status_text \in StatusTexts,
          url \in Urls, method \in Methods, body \in Bodies \cup {None} :
          /\ val' = http(status_code, status_text, url, method, body)
          /\ args' = HttpArgs("http", status_code, status_text, url, method, body)
    /\ op' = "http"
    /\ UNCHANGED <<out, seen, calls, other, otherArgs>>

\* let val = Error::web_api(x)
WebApi ==
    /\ val.kind = "none"
    /\ \E x \in Displayables :
          /\ val' = web_api(x)
          /\ args' = [fn |-> "web_api", x |-> x]
    /\ op' = "web_api"
    /\ UNCHANGED <<out, seen, calls, other, otherArgs>>

\* The HttpErrorDetails that val is or wraps.
Inner(v) == IF v.kind = "HttpError" THEN v.details ELSE v

\* A read operation can be called: a value exists, no earlier call panicked.
Readable == val.kind # "none" /\ out # Panic /\ calls < MaxCalls

\* val.summary()
Summary ==
    /\ Readable
    /\ val.kind \in {"HttpErrorDetails", "HttpError"}
    /\ out' = summary(Inner(val))
    /\ seen' = IF seen.summary = None THEN [seen EXCEPT !.summary = out'] ELSE seen
    /\ op' = "summary"
    /\ calls' = calls + 1
    /\ UNCHANGED <<val, args, other, otherArgs>>

\* val.details()
Details ==
    /\ Readable
    /\ val.kind \in {"HttpErrorDetails", "HttpError"}
    /\ out' = details(Inner(val))
    /\ seen' = IF seen.details = None THEN [seen EXCEPT !.details = out'] ELSE seen
    /\ op' = "details"
    /\ calls' = calls + 1
    /\ UNCHANGED <<val, args, other, otherArgs>>

\* val.to_string(), through Display
Display ==
    /\ Readable
    /\ val.kind \in {"WebApiError", "HttpError"}
    /\ out' = fmt(val)
    /\ op' = "display"
    /\ calls' = calls + 1
    /\ UNCHANGED <<val, args, seen, other, otherArgs>>

Next == New \/ Http \/ WebApi \/ Summary \/ Details \/ Display

Spec == Init /\ [][Next]_vars

\* Two constructions side by side.
NewFirst == NewDetails(PairBodies)

\* let other = HttpErrorDetails::new(..), a second call
NewSecond ==
    /\ val.kind = "HttpErrorDetails"
    /\ other.kind = "none"
    /\ \E status_code \in StatusCodes, status_text \in StatusTexts,
          url \in Urls, method \in Methods, body \in PairBodies \cup {None} :
          /\ other' = new(status_code, status_text, url, method, body)
          /\ otherArgs' = HttpArgs("new", status_code, status_text, url, method, body)
    /\ op' = "new"
    /\ UNCHANGED <<val, args, out, seen, calls>>

NextPair == NewFirst \/ NewSecond

SpecPair == Init /\ [][NextPair]_vars


\* ------------------------------------------------------------------------
\* Properties
\* ------------------------------------------------------------------------

\* val is or wraps an HttpErrorDetails (built by New or Http).
Constructed == val.kind \in {"HttpErrorDetails", "HttpError"}

BodyParses == args.body # None /\ from_str(args.body).ok

\* The text each of the four field rules yields on a parsed body, in the
\* order (a) error.message, (b) error, (c) message, (d) detail; None for a
\* rule that does not match.
StringAt(map, key) ==
    IF key \in DOMAIN map /\ map[key].t = "string" THEN map[key].s ELSE None

Rules(json) ==
    IF json.t # "object" THEN <<None, None, None, None>>
    ELSE <<IF error \in DOMAIN json.m /\ json.m[error].t = "object"
               THEN StringAt(json.m[error].m, message) ELSE None,
           StringAt(json.m, error),
           StringAt(json.m, message),
           StringAt(json.m, detail)>>

Matching(json) == {i \in 1..4 : Rules(json)[i] # None}

FirstMatch(json) ==
    Rules(json)[CHOOSE i \in Matching(json) : \A j \in Matching(json) : i <= j]

StatusFallback ==
    args.status_text \o <<" ", "(">> \o Decimal(args.status_code) \o <<")">>

\* C1: for a body that parses as JSON and matches one of the four field
\* rules, the stored message is the text of the first matching rule in the
\* order error.message, error, message, detail.
C1_PriorityOrder ==
    (Constructed /\ BodyParses /\ Matching(from_str(args.body).v) # {})
        => Inner(val).message = FirstMatch(from_str(args.body).v)

\* A body with both error.message and a top-level message yielded the
\* former.
C1_Witness ==
    /\ Constructed /\ BodyParses
    /\ {1, 3} \subseteq Matching(from_str(args.body).v)
    /\ Rules(from_str(args.body).v)[1] # Rules(from_str(args.body).v)[3]
    /\ Inner(val).message = Rules(from_str(args.body).v)[1]

\* C2: the message stored by new is never the empty string.
C2_MessageNonEmpty ==
    Constructed => Inner(val).message # <<>>

\* C3: an absent body, an empty body, and a body that does not parse and
\* either has 200 or more characters or starts with `{`, all yield the
\* message "<status_text> (<status_code>)".
C3_FallbackCases ==
    (Constructed /\
        \/ args.body = None
        \/ /\ args.body # None /\ ~from_str(args.body).ok
           /\ \/ CharLen(args.body) >= ShortBodyLimit
              \/ starts_with(args.body, "{")
              \/ args.body = <<>>)
        => Inner(val).message = StatusFallback

\* C4: a body that does not parse, has fewer than 200 characters and does
\* not start with `{` is the message, verbatim.
C4_ShortPlainBodyVerbatim ==
    (Constructed /\ args.body # None /\ ~from_str(args.body).ok
        /\ CharLen(args.body) < ShortBodyLimit /\ ~starts_with(args.body, "{"))
        => Inner(val).message = args.body

\* C5: a body that parses as JSON and matches none of the four field rules
\* yields the message "<status_text> (<status_code>)", never the raw body.
C5_ParsedBodyNeverRaw ==
    (Constructed /\ BodyParses /\ Matching(from_str(args.body).v) = {})
        => Inner(val).message = StatusFallback

\* C6: details() ends with the whole body when it has 500 characters or
\* fewer, and otherwise with its first 500 characters and the marker
\* "... (truncated)".
C6_TruncatesByCharacters ==
    (op = "details" /\ args.body # None)
        => out = DetailsHeader(Inner(val)) \o ResponseLabel
                    \o (IF CharLen(args.body) <= TruncateLimit
                        THEN args.body
                        ELSE TakeChars(args.body, TruncateLimit) \o TruncatedMark)

\* C7: every operation returns a value; none panics.
C7_NoOperationFails ==
    /\ out # Panic
    /\ op \in {"new", "http", "web_api"} => val.kind # "none"

\* C8: Display of a WebApiError writes the stored string, which is the
\* rendered text of the value given to web_api; Display of Error::http(..)
\* writes the summary() of HttpErrorDetails::new(..) of the same arguments.
C8_DisplayRendering ==
    op = "display" =>
        IF val.kind = "WebApiError"
        THEN out = val.text /\ val.text = to_string(args.x)
        ELSE out = summary(new(args.status_code, args.status_text, args.url,
                               args.method, args.body))

\* An Error::http value with a JSON body was displayed.
C8_Witness ==
    /\ op = "display" /\ val.kind = "HttpError"
    /\ BodyParses /\ 1 \in Matching(from_str(args.body).v)
    /\ out # None

\* C9: summary() returns "HTTP <status_code> - <message>" with the stored
\* message; a repeated summary() or details() call returns what the first
\* call returned; no read operation changes the value.
C9_SummaryStable ==
    /\ [](op = "summary" =>
            /\ out = <<"H", "T", "T", "P", " ">> \o Decimal(Inner(val).status_code)
                        \o <<" ", "-", " ">> \o Inner(val).message
            /\ out = seen.summary)
    /\ []((op = "details" /\ out # Panic) => out = seen.details)
    /\ [][op' \in {"summary", "details", "display"} => val' = val]_vars

\* summary() was called again after details() and another summary().
C9_Witness ==
    /\ op = "summary" /\ calls = 3
    /\ seen.summary # None /\ seen.details \notin {None, Panic}
    /\ Inner(val).message # Inner(val).status_text

SameFields(v, a) ==
    /\ v.status_code = a.status_code
    /\ v.status_text = a.status_text
    /\ v.url = a.url
    /\ v.method = a.method
    /\ v.body = a.body

\* C10: new stores the five arguments as given, and two calls that agree on
\* body, status_text and status_code store the same message whatever their
\* url and method.
C10_MessageIgnoresUrlMethod ==
    /\ val.kind = "HttpErrorDetails" => SameFields(val, args)
    /\ other.kind = "HttpErrorDetails" =>
          /\ SameFields(other, otherArgs)
          /\ (/\ args.body = otherArgs.body
              /\ args.status_text = otherArgs.status_text
              /\ args.status_code = otherArgs.status_code)
                => val.message = other.message

\* Two calls agreed on the response and differed in url and method.
C10_Witness ==
    /\ val.kind = "HttpErrorDetails" /\ other.kind = "HttpErrorDetails"
    /\ args.body = otherArgs.body /\ args.body # None
    /\ args.status_text = otherArgs.status_text
    /\ args.status_code = otherArgs.status_code
    /\ val.url # other.url /\ val.method # other.method
    /\ val.message = other.message

====
